---------------------------- MODULE Spec2Model ----------------------------
(***************************************************************************)
(* Model of the image-generation backend: the capability registry          *)
(* (app/config.py), the pipeline cache and adapter handling of             *)
(* StableDiffusionModel (app/models.py) and the job table, submission      *)
(* handlers and background tasks of the API (app/main.py).                 *)
(*                                                                         *)
(* Background tasks are plain functions, so the framework runs each in a   *)
(* worker thread: the steps of different jobs interleave, and every access *)
(* to model_cache, loaded_loras, a pipeline object or the job table is a   *)
(* separate atomic step.  The engine (diffusers, PIL, the file system) is  *)
(* outside the repository: each call into it either returns or raises.     *)
(***************************************************************************)
EXTENDS Integers, Sequences, FiniteSets, TLC

VARIABLES
    jobs,          \* main.py `jobs`: job_id -> job dict
    tasks,         \* job_id -> the background task of the job: arguments, locals, position
    model_cache,   \* StableDiffusionModel.model_cache: model_id -> (mode -> pipeline)
    loaded_loras,  \* StableDiffusionModel.loaded_loras: tracking key -> lora keys
    pipes,         \* the pipeline objects created so far, by object identity
    files,         \* the files written to settings.output_dir
    response,      \* what the last submission returned to its caller
    unloads,       \* number of unload_model calls made so far
    status_query,  \* the call of get_status in progress: its position, what it has read
    image,         \* an init image and the sizes its preprocessing has given it
    lookup,        \* the last call of a lookup of the registry and what it gave
    env            \* which inputs the clients of this behaviour send (fixed)

vars == <<jobs, tasks, model_cache, loaded_loras, pipes, files, response, unloads,
          status_query, image, lookup, env>>

None == "None"

-----------------------------------------------------------------------------
(* Bounds of the model *)

MaxJobs == 2
MaxUnloads == 2
MaxPasses == 2

-----------------------------------------------------------------------------
(* Exceptions: the class, the text and the value the text is about *)

Error(exc, msg, about) == [exc |-> exc, msg |-> msg, about |-> about]

NoError == Error(None, None, None)

-----------------------------------------------------------------------------
(* app/config.py: the capability registry *)

SD15_COMPATIBLE_MODELS ==
    {"sd-v1-5", "openjourney", "realistic-vision", "dreamshaper", "analog-diffusion"}

SDXL_COMPATIBLE_MODELS == {"sdxl"}

\* model key -> the fields of MODEL_CONFIGS the code reads
MODEL_CONFIGS ==
    [k \in SD15_COMPATIBLE_MODELS \cup SDXL_COMPATIBLE_MODELS \cup {"flux-schnell"} |->
        CASE k = "sd-v1-5" ->
               [model_id |-> "runwayml/stable-diffusion-v1-5", img2img |-> TRUE, inpaint |-> TRUE]
          [] k = "openjourney" ->
               [model_id |-> "prompthero/openjourney", img2img |-> TRUE, inpaint |-> TRUE]
          [] k = "sdxl" ->
               [model_id |-> "stabilityai/stable-diffusion-xl-base-1.0", img2img |-> TRUE, inpaint |-> TRUE]
          [] k = "realistic-vision" ->
               [model_id |-> "SG161222/Realistic_Vision_V5.1_noVAE", img2img |-> TRUE, inpaint |-> TRUE]
          [] k = "dreamshaper" ->
               [model_id |-> "Lykon/dreamshaper-8", img2img |-> TRUE, inpaint |-> TRUE]
          [] k = "analog-diffusion" ->
               [model_id |-> "wavymulder/Analog-Diffusion", img2img |-> TRUE, inpaint |-> TRUE]
          [] k = "flux-schnell" ->
               [model_id |-> "black-forest-labs/FLUX.1-schnell", img2img |-> FALSE, inpaint |-> FALSE]]

INPAINT_MODEL_CONFIGS ==
    [f \in {"sd15", "sdxl"} |->
        IF f = "sd15" THEN [model_id |-> "runwayml/stable-diffusion-inpainting"]
        ELSE [model_id |-> "diffusers/stable-diffusion-xl-1.0-inpainting-0.1"]]

\* weights are in hundredths: default_weight 0.7 is 70
LORA_CONFIGS ==
    [k \in {"watercolor", "anime-ghibli", "thangka"} |->
        CASE k = "watercolor" ->
               [default_weight |-> 70, min |-> 0, max |-> 120,
                compatible_models |-> SD15_COMPATIBLE_MODELS,
                trigger_words |-> <<"Sora WaterColor", "watercolor", "watercolor painting">>]
          [] k = "anime-ghibli" ->
               [default_weight |-> 75, min |-> 0, max |-> 120,
                compatible_models |-> SD15_COMPATIBLE_MODELS,
                trigger_words |-> <<"Studio Ghibli", "StdGBRedmAF", "ghibli style", "anime">>]
          [] k = "thangka" ->
               [default_weight |-> 80, min |-> 0, max |-> 120,
                compatible_models |-> SDXL_COMPATIBLE_MODELS,
                trigger_words |-> <<"thangka", "Avalokiteshvara", "bodhisattva", "tibetan art", "mandala">>]]

\* the order in which LORA_CONFIGS.items() yields the keys
LORA_ORDER == <<"watercolor", "anime-ghibli", "thangka">>

\* Settings.get_model_config: the config, or the ValueError it raises
get_model_config(model_key) ==
    IF model_key \notin DOMAIN MODEL_CONFIGS
    THEN [raised |-> TRUE, error |-> Error("ValueError", "Unknown model key", model_key),
          available |-> DOMAIN MODEL_CONFIGS]
    ELSE [raised |-> FALSE, value |-> MODEL_CONFIGS[model_key]]

\* Settings.get_model_id_from_key
get_model_id_from_key(model_key) ==
    LET c == get_model_config(model_key)
    IN IF c.raised THEN c ELSE [raised |-> FALSE, value |-> c.value.model_id]

\* Settings.get_lora_config
get_lora_config(lora_key) ==
    IF lora_key \notin DOMAIN LORA_CONFIGS
    THEN [raised |-> TRUE, error |-> Error("ValueError", "Unknown LoRA key", lora_key),
          available |-> DOMAIN LORA_CONFIGS]
    ELSE [raised |-> FALSE, value |-> LORA_CONFIGS[lora_key]]

\* Settings.get_compatible_loras: the compatible keys, in LORA_CONFIGS order
get_compatible_loras(model_key) ==
    SelectSeq(LORA_ORDER, LAMBDA k : model_key \in LORA_CONFIGS[k].compatible_models)

\* faulty variant, to test the sensitivity of the properties: any configured LoRA passes
is_lora_compatible_any_model(lora_key, model_key) == lora_key \in DOMAIN LORA_CONFIGS

\* Settings.is_lora_compatible
is_lora_compatible(lora_key, model_key) ==
    IF lora_key \notin DOMAIN LORA_CONFIGS THEN FALSE
    ELSE model_key \in LORA_CONFIGS[lora_key].compatible_models

\* Settings.supports_inpaint
supports_inpaint(model_key) ==
    IF model_key \notin DOMAIN MODEL_CONFIGS THEN FALSE
    ELSE MODEL_CONFIGS[model_key].inpaint

\* Settings.get_inpaint_model_id
get_inpaint_model_id(model_key) ==
    IF ~supports_inpaint(model_key) THEN None
    ELSE IF model_key \in SD15_COMPATIBLE_MODELS THEN INPAINT_MODEL_CONFIGS["sd15"].model_id
    ELSE IF model_key \in SDXL_COMPATIBLE_MODELS THEN INPAINT_MODEL_CONFIGS["sdxl"].model_id
    ELSE None

\* the keys the callers look up: the configured ones and others
ModelKeys == DOMAIN MODEL_CONFIGS \cup {"sd-v2-1", "sd-v1.5", "SDXL", "flux-dev", ""}

LoraKeys == DOMAIN LORA_CONFIGS \cup {"oil-paint", "Watercolor", ""}

\* a call that returned
Returned(value) == [raised |-> FALSE, value |-> value]

NoLookup == [fn |-> None]

\* the calls of the lookups of Settings, with their arguments and what they gave
Lookups ==
    {[fn |-> "get_model_config", model_key |-> m, lora_key |-> None,
      result |-> get_model_config(m)] : m \in ModelKeys}
    \cup {[fn |-> "get_lora_config", model_key |-> None, lora_key |-> l,
           result |-> get_lora_config(l)] : l \in LoraKeys}
    \cup {[fn |-> "get_compatible_loras", model_key |-> m, lora_key |-> None,
           result |-> Returned(get_compatible_loras(m))] : m \in ModelKeys}
    \cup {[fn |-> "is_lora_compatible", model_key |-> m, lora_key |-> l,
           result |-> Returned(is_lora_compatible(l, m))] : m \in ModelKeys, l \in LoraKeys}
    \cup {[fn |-> "get_inpaint_model_id", model_key |-> m, lora_key |-> None,
           result |-> Returned(get_inpaint_model_id(m))] : m \in ModelKeys}

\* a caller looks something up in the registry
Lookup ==
    /\ \E call \in Lookups : lookup' = call
    /\ UNCHANGED <<jobs, tasks, model_cache, loaded_loras, pipes, files, response, unloads,
                   status_query, image, env>>

-----------------------------------------------------------------------------
(* app/models.py: helpers of StableDiffusionModel *)

FLUX_MODEL_IDS == {"black-forest-labs/FLUX.1-schnell", "black-forest-labs/FLUX.1-dev"}

\* StableDiffusionModel._is_flux_model
_is_flux_model(model_id) == model_id \in FLUX_MODEL_IDS

\* StableDiffusionModel._get_model_key_from_id
_get_model_key_from_id(model_id) ==
    IF \E k \in DOMAIN MODEL_CONFIGS : MODEL_CONFIGS[k].model_id = model_id
    THEN CHOOSE k \in DOMAIN MODEL_CONFIGS : MODEL_CONFIGS[k].model_id = model_id
    ELSE None


-----------------------------------------------------------------------------
(* The requests the clients send.  An optional value is the empty sequence *)
(* (Python None) or a one-element sequence.  Weights and strengths are in  *)
(* hundredths.  Every request satisfies the Field constraints of its       *)
(* schema: the framework answers 422 to the others before the handler runs.*)

\* the sets of requests the specifications draw from: a few requests for the jobs
\* that run together ("jobs"), more models for the jobs that run one at a time
\* ("seq"), and requests of every kind the handlers tell apart ("submit");
\* "pool" has the requests of "jobs" and a service configured to run one job at a
\* time; "weights" has requests with adapters whose weight is absent, null, in
\* the range of the adapter and out of it; "seeds" has requests without a seed,
\* with the seed 0 and with another seed; "mps" has the requests of "seq" and a
\* service configured for the mps device and fp16; "ticks" has the requests of
\* "jobs" and progress callbacks that can raise
Envs == {"jobs", "seq", "submit", "pool", "weights", "seeds", "mps", "ticks"}

\* Settings, read from the environment of the service: max_concurrent_jobs is 2
\* unless MAX_CONCURRENT_JOBS says otherwise
Settings(e) ==
    [max_concurrent_jobs |-> IF e = "pool" THEN 1 ELSE 2,
     device |-> IF e = "mps" THEN "mps" ELSE "cpu",
     model_precision |-> IF e = "mps" THEN "fp16" ELSE "fp32"]

NoLoras == << >>

Lora(k, w) == [key |-> k, weight |-> w]

\* POST /api/generate bodies: GenerateRequest with its list of LoraSpec
GenerateRequestsOf(e) ==
    IF e = "submit"
    THEN [prompt : {"a lake"},
          model_key : {"sd-v1-5", "sdxl", "flux-schnell", "sd-v2-1"},
          num_inference_steps : {10},
          width : {500, 512},
          height : {500, 512},
          seed : {<< >>},
          loras : {NoLoras, <<Lora("watercolor", << >>)>>, <<Lora("thangka", <<150>>)>>,
                   <<Lora("watercolor", <<50>>), Lora("thangka", << >>)>>}]
    ELSE [prompt : {"a lake"},
          model_key : IF e \in {"seq", "mps"}
                      THEN {"sd-v1-5", "openjourney", "flux-schnell", "sd-v2-1"}
                      ELSE {"sd-v1-5"},
          num_inference_steps : {10},
          width : {512},
          height : {512},
          seed : IF e = "seeds" THEN {<< >>, <<0>>, <<42>>} ELSE {<< >>},
          loras : IF e = "weights"
                  THEN {NoLoras, <<Lora("watercolor", << >>)>>, <<Lora("watercolor", <<150>>)>>}
                  ELSE {NoLoras, <<Lora("watercolor", << >>)>>}]

GenerateRequestsBy == [e \in Envs |-> GenerateRequestsOf(e)]

GenerateRequests(e) == GenerateRequestsBy[e]

\* POST /api/generate_img2img forms
Img2ImgFormsOf(e) ==
    IF e = "submit"
    THEN LET form(m) == [prompt |-> "a lake", model_key |-> m, content_type |-> "image/png",
                         upload |-> "ok", strength |-> 75, num_inference_steps |-> 10,
                         seed |-> << >>]
             M == {"sd-v1-5", "flux-schnell"}
         IN {form(m) : m \in M}
            \cup {[form(m) EXCEPT !.content_type = "text/plain"] : m \in M}
            \cup {[form(m) EXCEPT !.upload = u] : m \in M, u \in {"corrupt", "too_large"}}
            \cup {[form(m) EXCEPT !.strength = x] : m \in M, x \in {-10, 150}}
    ELSE [prompt : {"a lake"},
          model_key : IF e \in {"seq", "mps"} THEN {"sd-v1-5", "flux-schnell"} ELSE {"sd-v1-5"},
          content_type : {"image/png"},
          upload : {"ok"},
          strength : {75},
          num_inference_steps : {10},
          seed : {<< >>}]

Img2ImgFormsBy == [e \in Envs |-> Img2ImgFormsOf(e)]

Img2ImgForms(e) == Img2ImgFormsBy[e]

\* the `loras` form field of /api/generate_inpaint: absent ("none"), text that is
\* not JSON ("invalid"), or a JSON list of objects with an optional "key" and an
\* optional "weight" (has_weight says whether the object has the member)
JsonLora(k, hw, w) == [key |-> k, has_weight |-> hw, weight |-> w]

LorasField(j, l) == [json |-> j, list |-> l]

InpaintLoras(e) ==
    IF e = "submit"
    THEN {LorasField("none", << >>), LorasField("invalid", << >>),
          LorasField("list", <<JsonLora(<<"watercolor">>, FALSE, << >>)>>),
          LorasField("list", <<JsonLora(<<"thangka">>, TRUE, <<80>>)>>),
          LorasField("list", <<JsonLora(<< >>, FALSE, << >>),
                               JsonLora(<<"watercolor">>, TRUE, <<150>>)>>)}
    ELSE IF e = "weights"
    THEN {LorasField("none", << >>),
          LorasField("list", <<JsonLora(<<"watercolor">>, FALSE, << >>)>>),
          LorasField("list", <<JsonLora(<<"watercolor">>, TRUE, << >>)>>),
          LorasField("list", <<JsonLora(<<"watercolor">>, TRUE, <<150>>)>>)}
    ELSE {LorasField("none", << >>),
          LorasField("list", <<JsonLora(<<"watercolor">>, FALSE, << >>)>>)}

\* POST /api/generate_inpaint forms: every model with every `loras` field, and a
\* form with one more field out of range for every model
InpaintForm(m, l) ==
    [prompt |-> "a lake", model_key |-> m, content_type |-> "image/png",
     mask_content_type |-> "image/png", upload |-> "ok", strength |-> 80,
     blur_mask |-> TRUE, blur_factor |-> 33, num_inference_steps |-> 10,
     seed |-> << >>, loras |-> l]

InpaintFormsOf(e) ==
    IF e = "submit"
    THEN LET M == {"sd-v1-5", "sdxl", "flux-schnell", "sd-v2-1"}
             none == LorasField("none", << >>)
         IN {InpaintForm(m, l) : m \in M, l \in InpaintLoras(e)}
            \cup {[InpaintForm(m, none) EXCEPT !.content_type = "text/plain"] : m \in M}
            \cup {[InpaintForm(m, none) EXCEPT !.mask_content_type = "text/plain"] : m \in M}
            \cup {[InpaintForm(m, none) EXCEPT !.upload = "corrupt"] : m \in M}
            \cup {[InpaintForm(m, none) EXCEPT !.strength = s] : m \in M, s \in {-10, 150}}
            \cup {[InpaintForm(m, none) EXCEPT !.blur_factor = b] : m \in M, b \in {-1, 101}}
    ELSE {InpaintForm(m, l) :
            m \in IF e \in {"seq", "mps"} THEN {"sd-v1-5", "openjourney"} ELSE {"sd-v1-5"},
            l \in InpaintLoras(e)}

InpaintFormsBy == [e \in Envs |-> InpaintFormsOf(e)]

InpaintForms(e) == InpaintFormsBy[e]

-----------------------------------------------------------------------------
(* app/main.py: the submission handlers *)

Rejected(code, detail) == [kind |-> "rejected", status_code |-> code, detail |-> detail]

\* lora_specs is the list handed to the task; None and the empty list, which every
\* later test (`if lora_specs`) treats alike, are both the empty sequence
Accepted(lora_specs) == [kind |-> "accepted", lora_specs |-> lora_specs]

allowed_types == {"image/png", "image/jpeg", "image/jpg", "image/webp"}

\* generate_image, the loop body over request.loras: the lora_specs built from the
\* first n entries, or the HTTPException raised on the way
RECURSIVE ValidateLoras(_, _, _)
ValidateLoras(loras, model_key, n) ==
    IF n = 0 THEN Accepted(<< >>)
    ELSE LET before == ValidateLoras(loras, model_key, n - 1)
             lora == loras[n]
         IN IF before.kind = "rejected" THEN before
            ELSE IF ~is_lora_compatible(lora.key, model_key)
            THEN Rejected(400, <<"LoRA is not compatible with model", lora.key, model_key,
                                 get_compatible_loras(model_key)>>)
            ELSE LET lora_config == get_lora_config(lora.key).value
                     weight == IF lora.weight # << >> THEN lora.weight
                               ELSE <<lora_config.default_weight>>
                 IN Accepted(Append(before.lora_specs, Lora(lora.key, weight)))

\* faulty variant, to test the sensitivity of the properties: only the width is checked
ValidateGenerate_width_only(request) ==
    IF request.width % 8 # 0
    THEN Rejected(400, <<"Width and height must be multiples of 8">>)
    ELSE IF request.loras # NoLoras
    THEN ValidateLoras(request.loras, request.model_key, Len(request.loras))
    ELSE Accepted(<< >>)

\* generate_image up to the creation of the job: what the checks decide
ValidateGenerate(request) ==
    IF request.width % 8 # 0 \/ request.height % 8 # 0
    THEN Rejected(400, <<"Width and height must be multiples of 8">>)
    ELSE IF request.loras # NoLoras
    THEN ValidateLoras(request.loras, request.model_key, Len(request.loras))
    ELSE Accepted(<< >>)

\* generate_img2img up to the creation of the job
ValidateImg2Img(form) ==
    IF form.content_type \notin allowed_types
    THEN Rejected(400, <<"Invalid image type">>)
    ELSE IF ~(0 <= form.strength /\ form.strength <= 100)
    THEN Rejected(400, <<"Strength must be between 0.0 and 1.0">>)
    ELSE IF form.upload # "ok"
    THEN Rejected(400, <<"Invalid image file", form.upload>>)
    ELSE Accepted(<< >>)

\* generate_inpaint, the loop body over the parsed lora list
RECURSIVE ValidateJsonLoras(_, _, _)
ValidateJsonLoras(lora_list, model_key, n) ==
    IF n = 0 THEN Accepted(<< >>)
    ELSE LET before == ValidateJsonLoras(lora_list, model_key, n - 1)
             lora == lora_list[n]
         IN IF before.kind = "rejected" THEN before
            ELSE IF lora.key = << >> THEN before
            ELSE IF ~is_lora_compatible(lora.key[1], model_key)
            THEN Rejected(400, <<"LoRA is not compatible with model", lora.key[1], model_key,
                                 get_compatible_loras(model_key)>>)
            ELSE LET lora_config == get_lora_config(lora.key[1]).value
                     weight == IF lora.has_weight THEN lora.weight
                               ELSE <<lora_config.default_weight>>
                 IN Accepted(Append(before.lora_specs, Lora(lora.key[1], weight)))

\* generate_inpaint after its check of the model: the other checks
ValidateInpaintForm(form) ==
    IF form.content_type \notin allowed_types
    THEN Rejected(400, <<"Invalid init_image type">>)
    ELSE IF form.mask_content_type \notin allowed_types
    THEN Rejected(400, <<"Invalid mask_image type">>)
    ELSE IF ~(0 <= form.strength /\ form.strength <= 100)
    THEN Rejected(400, <<"Strength must be between 0.0 and 1.0">>)
    ELSE IF ~(0 <= form.blur_factor /\ form.blur_factor <= 100)
    THEN Rejected(400, <<"blur_factor must be between 0 and 100">>)
    ELSE LET parsed ==
                 IF form.loras.json = "none" THEN Accepted(<< >>)
                 ELSE IF form.loras.json = "invalid"
                 THEN Rejected(400, <<"Invalid loras format. Must be valid JSON array.">>)
                 ELSE ValidateJsonLoras(form.loras.list, form.model_key, Len(form.loras.list))
         IN IF parsed.kind = "rejected" THEN parsed
            ELSE IF form.upload # "ok"
            THEN Rejected(400, <<"Invalid image file", form.upload>>)
            ELSE parsed

\* faulty variant, to test the sensitivity of the properties: the model is not asked whether it supports inpainting
ValidateInpaint_any_model(form) == ValidateInpaintForm(form)

\* generate_inpaint up to the creation of the job
ValidateInpaint(form) ==
    IF ~supports_inpaint(form.model_key)
    THEN Rejected(400, <<"Model does not support inpainting", form.model_key>>)
    ELSE ValidateInpaintForm(form)

-----------------------------------------------------------------------------
(* app/main.py: the job table *)

\* the dict a handler stores under a fresh job id; a key the dict does not have
\* reads as None (job.get), the empty sequence here
NewJob(job_id, prompt, message) ==
    [job_id |-> job_id, status |-> "pending", prompt |-> prompt,
     message |-> [text |-> message, error |-> NoError],
     image_url |-> << >>, image_base64 |-> << >>, generation_time |-> << >>,
     progress_percent |-> << >>]

QueuedMessage(fn) ==
    CASE fn = "txt2img" -> "Job queued for processing"
      [] fn = "img2img" -> "Img2img job queued for processing"
      [] fn = "inpaint" -> "Inpaint job queued for processing"

FailurePrefix(fn) ==
    CASE fn = "txt2img" -> "Generation failed: "
      [] fn = "img2img" -> "Img2img generation failed: "
      [] fn = "inpaint" -> "Inpaint generation failed: "

SuccessMessage(fn) ==
    CASE fn = "txt2img" -> "Image generated successfully"
      [] fn = "img2img" -> "Img2img generated successfully"
      [] fn = "inpaint" -> "Inpaint generated successfully"

\* faulty variant, to test the sensitivity of the properties: the task forgets to set the status when it starts
mark_processing_keeps_status(job) ==
    [job EXCEPT !.progress_percent = <<0>>]

\* the first statements of a task: the job is processing, at 0 percent
mark_processing(job) ==
    [job EXCEPT !.status = "processing", !.progress_percent = <<0>>]

\* faulty variant, to test the sensitivity of the properties: the except clause records the
\* message and leaves the status
mark_failed_keeps_status(job, fn, e) ==
    [job EXCEPT !.message = [text |-> FailurePrefix(fn), error |-> e]]

\* the update of the except clause of a task
mark_failed(job, fn, e) ==
    [job EXCEPT !.status = "failed",
                !.message = [text |-> FailurePrefix(fn), error |-> e]]

\* faulty variant, to test the sensitivity of the properties: no preview is recorded
mark_completed_without_preview(job, fn) ==
    [job EXCEPT !.status = "completed",
                !.image_url = <<[dir |-> "/images/", name |-> job.job_id, ext |-> "png"]>>,
                !.generation_time = <<"elapsed">>,
                !.message = [text |-> SuccessMessage(fn), error |-> NoError],
                !.progress_percent = <<1000>>]

\* the update a task ends with
mark_completed(job, fn) ==
    [job EXCEPT !.status = "completed",
                !.image_url = <<[dir |-> "/images/", name |-> job.job_id, ext |-> "png"]>>,
                !.image_base64 = <<[png_of |-> job.job_id]>>,
                !.generation_time = <<"elapsed">>,
                !.message = [text |-> SuccessMessage(fn), error |-> NoError],
                !.progress_percent = <<1000>>]

\* faulty variant, to test the sensitivity of the properties: the share of the steps still to do
progress_tenths_remaining(done, num_inference_steps) ==
    ((num_inference_steps - done) * 1000) \div num_inference_steps

\* update_progress: round(progress, 1) of (step + 1) / num_inference_steps * 100,
\* in tenths of a percent; `done` is step + 1
progress_tenths(done, num_inference_steps) ==
    (2 * done * 1000 + num_inference_steps) \div (2 * num_inference_steps)

\* the arguments a handler passes to add_task, with the locals of the task; only
\* generate_image_task has a width and a height (size)
NewTask(fn, req, lora_specs) ==
    [fn |-> fn, model_key |-> req.model_key, prompt |-> req.prompt,
     num_inference_steps |-> req.num_inference_steps, seed |-> req.seed,
     lora_specs |-> lora_specs,
     size |-> IF fn = "txt2img" THEN <<req.width, req.height>> ELSE << >>,
     pc |-> "queued", model_id |-> None, pipe |-> 0, i |-> 0,
     adapter_names |-> << >>, adapter_weights |-> << >>, trigger_words |-> << >>,
     step |-> 0, dropped |-> FALSE, raised |-> {}]

\* a handler: the checks, then the job and its task, then the response
Submit(fn, req, checked) ==
    /\ checked.kind = "accepted" => Len(jobs) < MaxJobs
    /\ IF checked.kind = "rejected"
       THEN /\ response' = checked
            /\ UNCHANGED <<jobs, tasks>>
       ELSE LET job_id == Len(jobs) + 1
            IN /\ jobs' = Append(jobs, NewJob(job_id, req.prompt, QueuedMessage(fn)))
               /\ tasks' = Append(tasks, NewTask(fn, req, checked.lora_specs))
               /\ response' = [kind |-> "accepted", job_id |-> job_id, status |-> "pending",
                               message |-> QueuedMessage(fn)]
    /\ UNCHANGED <<model_cache, loaded_loras, pipes, files, unloads, status_query, image, lookup, env>>

\* POST /api/generate
generate_image(request) == Submit("txt2img", request, ValidateGenerate(request))

\* POST /api/generate_img2img
generate_img2img(form) == Submit("img2img", form, ValidateImg2Img(form))

\* POST /api/generate_inpaint
generate_inpaint(form) == Submit("inpaint", form, ValidateInpaint(form))

\* faulty variant, to test the sensitivity of the properties: an unknown job is a failed job
get_status_unknown_failed(job_id) ==
    IF job_id \notin DOMAIN jobs
    THEN [kind |-> "status", job_id |-> job_id, status |-> "failed"]
    ELSE LET job == jobs[job_id]
         IN [kind |-> "status", job_id |-> job.job_id, status |-> job.status,
             image_url |-> job.image_url, message |-> job.message,
             generation_time |-> job.generation_time,
             progress_percent |-> job.progress_percent]

\* GET /api/status/{job_id}: the StatusResponse built from the job, or the 404
get_status(job_id) ==
    IF job_id \notin DOMAIN jobs
    THEN [kind |-> "not_found", status_code |-> 404, job_id |-> job_id]
    ELSE LET job == jobs[job_id]
         IN [kind |-> "status", job_id |-> job.job_id, status |-> job.status,
             image_url |-> job.image_url, message |-> job.message,
             generation_time |-> job.generation_time,
             progress_percent |-> job.progress_percent]

\* the keyword arguments of StatusResponse(...), in the order get_status
\* evaluates them
StatusFields ==
    <<"job_id", "status", "image_url", "message", "generation_time", "progress_percent">>

\* get_status on the event loop, up to `job = jobs[job_id]`: the 404, or the
\* reference to the job dict the tasks update in place
GetStatusStart(job_id) ==
    /\ status_query.pc \in {"idle", "returned"}
    /\ status_query' =
          IF job_id \notin DOMAIN jobs
          THEN [pc |-> "returned", job_id |-> job_id, response |-> get_status(job_id)]
          ELSE [pc |-> "read", job_id |-> job_id, read |-> << >>]
    /\ UNCHANGED <<jobs, tasks, model_cache, loaded_loras, pipes, files, response, unloads, image, lookup, env>>

\* one argument of StatusResponse(...) is evaluated: job["job_id"], job["status"],
\* job.get("image_url"), ...; a worker thread may run between two of them
GetStatusRead ==
    /\ status_query.pc = "read"
    /\ Len(status_query.read) < Len(StatusFields)
    /\ LET job == jobs[status_query.job_id]
           field == StatusFields[Len(status_query.read) + 1]
       IN status_query' = [status_query EXCEPT !.read = Append(@, job[field])]
    /\ UNCHANGED <<jobs, tasks, model_cache, loaded_loras, pipes, files, response, unloads, image, lookup, env>>

\* StatusResponse(...) is built from the values read and returned
GetStatusReturn ==
    /\ status_query.pc = "read"
    /\ Len(status_query.read) = Len(StatusFields)
    /\ LET read == status_query.read
       IN status_query' =
            [pc |-> "returned", job_id |-> status_query.job_id,
             response |-> [kind |-> "status", job_id |-> read[1], status |-> read[2],
                           image_url |-> read[3], message |-> read[4],
                           generation_time |-> read[5], progress_percent |-> read[6]]]
    /\ UNCHANGED <<jobs, tasks, model_cache, loaded_loras, pipes, files, response, unloads, image, lookup, env>>

-----------------------------------------------------------------------------
(* app/models.py: the preprocessing of the init image in                   *)
(* generate_image_from_image and generate_image_inpaint                    *)

max_size == 1024

\* the width and the height of the init images the clients upload
ImageSides == {1, 7, 8, 12, 512, 561, 1000, 1024, 1025, 1122, 2048, 3000}

\* the pairs (a, b) of ImageSides for which the double (max_size / a) * b lies
\* just below the integer max_size * b / a
InexactProducts == {<<1122, 561>>, <<1122, 1122>>}

\* `int((max_size / a) * b)`, in double arithmetic
scaled(a, b) ==
    IF <<a, b>> \in InexactProducts
    THEN (max_size * b) \div a - 1
    ELSE (max_size * b) \div a

\* faulty variant, to test the sensitivity of the properties: rounds to the multiple of 8 below n
floor8_below(n) == ((n - 1) \div 8) * 8

\* `(n // 8) * 8`
floor8(n) == (n \div 8) * 8

\* `if width > max_size or height > max_size`: the size the image is resized to
resize_target(size) ==
    LET width == size[1]
        height == size[2]
    IN IF width > height
       THEN <<floor8(max_size), floor8(scaled(width, height))>>
       ELSE <<floor8(scaled(height, width)), floor8(max_size)>>

\* Image.resize raises a ValueError for a size with a side of 0
resize(size) ==
    IF size[1] = 0 \/ size[2] = 0
    THEN [raised |-> TRUE, size |-> size]
    ELSE [raised |-> FALSE, size |-> size]

\* the first block of both functions: resize if too large
resize_if_large(size) ==
    IF size[1] > max_size \/ size[2] > max_size
    THEN resize(resize_target(size))
    ELSE [raised |-> FALSE, size |-> size]

\* the second block, of generate_image_inpaint only: ensure multiples of 8
ensure_multiples(size) ==
    LET new == <<floor8(size[1]), floor8(size[2])>>
    IN IF new # size THEN resize(new) ELSE [raised |-> FALSE, size |-> size]

\* the size of the init image after the preprocessing, or the error
preprocess(fn, size) ==
    LET r == resize_if_large(size)
    IN IF fn = "inpaint" /\ ~r.raised THEN ensure_multiples(r.size) ELSE r

NoImage == [fn |-> None]

\* the preprocessing is applied to the image, and again to what it gave
Preprocess ==
    /\ image.fn # None
    /\ ~image.raised
    /\ Len(image.sizes) <= MaxPasses
    /\ LET r == preprocess(image.fn, image.sizes[Len(image.sizes)])
       IN image' = [image EXCEPT !.raised = r.raised,
                                 !.sizes = IF r.raised THEN @ ELSE Append(@, r.size)]
    /\ UNCHANGED <<jobs, tasks, model_cache, loaded_loras, pipes, files, response, unloads,
                   status_query, lookup, env>>

-----------------------------------------------------------------------------
(* app/main.py and app/models.py: the mask of an inpaint request, from the  *)
(* form fields blur_mask and blur_factor to preprocess_mask                 *)

INPAINT_DEFAULTS == [blur_mask |-> TRUE, blur_factor |-> 33]

\* the width and the height of the masks the clients upload
MaskSides == {7, 512, 1030}

\* the values of the form field blur_factor
BlurFactors == {-1, 0, 1, 33, 100, 101}

\* `if not (0 <= blur_factor <= 100)` of generate_inpaint
blur_factor_accepted(blur_factor) == 0 <= blur_factor /\ blur_factor <= 100

\* `blur_factor or INPAINT_DEFAULTS["blur_factor"]`: 0 is falsy
blur_radius(blur_factor) ==
    IF blur_factor = 0 THEN INPAINT_DEFAULTS.blur_factor ELSE blur_factor

\* faulty variant, to test the sensitivity of the properties: the mask is not
\* resized to the target size
preprocess_mask_own_size(mask_size, target_size, blur_mask, blur_factor) ==
    LET to_multiple == ensure_multiples(mask_size)
    IN [raised |-> to_multiple.raised,
        size |-> to_multiple.size,
        blur |-> IF blur_mask /\ ~to_multiple.raised
                 THEN <<blur_radius(blur_factor)>>
                 ELSE << >>]

\* preprocess_mask: the size of the mask it returns and the radius of the
\* Gaussian blur it applied (the empty sequence: no blur), or the error
preprocess_mask(mask_size, target_size, blur_mask, blur_factor) ==
    LET to_target == IF mask_size # target_size
                     THEN resize(target_size)
                     ELSE [raised |-> FALSE, size |-> mask_size]
        to_multiple == IF to_target.raised THEN to_target ELSE ensure_multiples(to_target.size)
    IN [raised |-> to_multiple.raised,
        size |-> to_multiple.size,
        blur |-> IF blur_mask /\ ~to_multiple.raised
                 THEN <<blur_radius(blur_factor)>>
                 ELSE << >>]

\* generate_inpaint validates blur_factor
CheckBlur ==
    /\ image.fn = "inpaint"
    /\ image.pc = "submitted"
    /\ image' = [image EXCEPT !.pc = IF blur_factor_accepted(image.blur_factor)
                                     THEN "accepted" ELSE "rejected"]
    /\ UNCHANGED <<jobs, tasks, model_cache, loaded_loras, pipes, files, response, unloads,
                   status_query, lookup, env>>

\* generate_image_inpaint preprocesses the init image
InpaintInitImage ==
    /\ image.fn = "inpaint"
    /\ image.pc = "accepted"
    /\ LET r == preprocess("inpaint", image.sizes[1])
       IN image' = [image EXCEPT !.raised = r.raised,
                                 !.sizes = IF r.raised THEN @ ELSE Append(@, r.size),
                                 !.pc = IF r.raised THEN "failed" ELSE "init_done"]
    /\ UNCHANGED <<jobs, tasks, model_cache, loaded_loras, pipes, files, response, unloads,
                   status_query, lookup, env>>

\* generate_image_inpaint preprocesses the mask to match the init image
InpaintMask ==
    /\ image.fn = "inpaint"
    /\ image.pc = "init_done"
    /\ LET m == preprocess_mask(image.mask_size, image.sizes[2],
                                image.blur_mask, image.blur_factor)
       IN image' = [image EXCEPT !.raised = m.raised,
                                 !.mask = IF m.raised THEN @ ELSE <<[size |-> m.size, blur |-> m.blur]>>,
                                 !.pc = IF m.raised THEN "failed" ELSE "mask_done"]
    /\ UNCHANGED <<jobs, tasks, model_cache, loaded_loras, pipes, files, response, unloads,
                   status_query, lookup, env>>

-----------------------------------------------------------------------------
(* app/models.py: the pipeline cache *)

\* `model_id in self.model_cache and mode in self.model_cache[model_id]`
Cached(model_id, mode) ==
    /\ model_id \in DOMAIN model_cache
    /\ mode \in DOMAIN model_cache[model_id]

\* the identifier from_pretrained is called with: the dedicated inpainting model
\* for the inpaint mode, the base model otherwise
PretrainedId(model_id, mode) ==
    IF mode = "inpaint" THEN get_inpaint_model_id(_get_model_key_from_id(model_id))
    ELSE model_id

\* the torch_dtype a loader passes to from_pretrained: only load_model tells
\* FLUX apart, and it does so before it looks at the device
torch_dtype(model_id, mode, settings) ==
    IF mode = "txt2img" /\ _is_flux_model(model_id) THEN "bfloat16"
    ELSE IF settings.device = "mps" THEN "float32"
    ELSE IF settings.model_precision = "fp16" THEN "float16"
    ELSE "float32"

\* the object from_pretrained returns: config._name_or_path is the identifier it
\* was loaded from, no adapter is loaded and none is active
NewPipe(model_id, mode) ==
    [model_id |-> model_id, mode |-> mode, path |-> PretrainedId(model_id, mode),
     dtype |-> torch_dtype(model_id, mode, Settings(env)),
     adapters |-> {}, active |-> << >>]

\* load_inpaint_model between its cache check and its try block: the ValueError
\* it raises, if any
load_inpaint_checks(model_id) ==
    LET model_key == _get_model_key_from_id(model_id)
    IN IF model_key = None
       THEN Error("ValueError", "Unknown model ID", model_id)
       ELSE IF ~supports_inpaint(model_key)
       THEN Error("ValueError", "Model does not support inpainting", model_key)
       ELSE IF get_inpaint_model_id(model_key) = None
       THEN Error("ValueError", "No inpainting model found", model_key)
       ELSE NoError

\* what load_model, load_img2img_model and load_inpaint_model raise before they
\* call from_pretrained
load_checks(model_id, mode) ==
    IF mode = "inpaint" THEN load_inpaint_checks(model_id) ELSE NoError

\* `self.model_cache[model_id] = {}`
cache_new_dict(cache, model_id) == (model_id :> << >>) @@ cache

\* faulty variant, to test the sensitivity of the properties: the pipeline is not put into the cache
cache_set_forgets(cache, model_id, mode, pipe) == cache

\* `self.model_cache[model_id][mode] = pipe`
cache_set(cache, model_id, mode, pipe) ==
    [cache EXCEPT ![model_id] = (mode :> pipe) @@ @]

\* the number of pipelines loaded so far for a (model, mode) pair
LoadCount(model_id, mode) ==
    Cardinality({p \in DOMAIN pipes : pipes[p].model_id = model_id /\ pipes[p].mode = mode})

-----------------------------------------------------------------------------
(* app/main.py: the background tasks.  A task is generate_image_task,      *)
(* generate_img2img_task or generate_inpaint_task, by its `fn`.            *)

\* faulty variant, to test the sensitivity of the properties: the exception ends the task and
\* nothing marks the job
Raise_uncaught(j, e) ==
    /\ jobs' = jobs
    /\ tasks' = [tasks EXCEPT ![j].pc = "done", ![j].raised = @ \cup {e}]

\* an exception leaves the try block of the task: the except clause marks the job
Raise(j, e) ==
    /\ jobs' = [jobs EXCEPT ![j] = mark_failed(@, tasks[j].fn, e)]
    /\ tasks' = [tasks EXCEPT ![j].pc = "done", ![j].raised = @ \cup {e}]

Goto(j, pc) == tasks' = [tasks EXCEPT ![j].pc = pc]

\* the task starts in its worker thread
TaskStart(j) ==
    /\ tasks[j].pc = "queued"
    /\ jobs' = [jobs EXCEPT ![j] = mark_processing(@)]
    /\ Goto(j, "acquire")
    /\ UNCHANGED <<model_cache, loaded_loras, pipes, files, response, unloads, status_query, image, lookup, env>>

\* get_model_id_from_key, then the cache check of generate_image[_from_image,
\* _inpaint] and, on a miss, load_*_model up to its call of from_pretrained
Acquire(j) ==
    LET t == tasks[j]
        r == get_model_id_from_key(t.model_key)
    IN /\ t.pc = "acquire"
       /\ IF r.raised
          THEN Raise(j, r.error)
          ELSE IF Cached(r.value, t.fn)
          THEN /\ tasks' = [tasks EXCEPT ![j].pc = "get_pipe", ![j].model_id = r.value]
               /\ UNCHANGED jobs
          ELSE IF load_checks(r.value, t.fn) # NoError
          THEN Raise(j, load_checks(r.value, t.fn))
          ELSE /\ tasks' = [tasks EXCEPT ![j].pc = "from_pretrained", ![j].model_id = r.value]
               /\ UNCHANGED jobs
       /\ UNCHANGED <<model_cache, loaded_loras, pipes, files, response, unloads, status_query, image, lookup, env>>

\* from_pretrained and the set-up of the pipeline, which return a new pipeline or
\* raise; then `if model_id not in self.model_cache`
FromPretrained(j) ==
    LET t == tasks[j]
    IN /\ t.pc = "from_pretrained"
       /\ \E ok \in BOOLEAN :
            IF ok
            THEN /\ pipes' = Append(pipes, NewPipe(t.model_id, t.fn))
                 /\ tasks' = [tasks EXCEPT
                        ![j].pipe = Len(pipes) + 1,
                        ![j].pc = IF t.model_id \notin DOMAIN model_cache
                                  THEN "cache_dict" ELSE "cache_pipe"]
                 /\ UNCHANGED jobs
            ELSE /\ Raise(j, Error("OSError", "from_pretrained failed",
                                   PretrainedId(t.model_id, t.fn)))
                 /\ UNCHANGED pipes
       /\ UNCHANGED <<model_cache, loaded_loras, files, response, unloads, status_query, image, lookup, env>>

\* `self.model_cache[model_id] = {}`
CacheDict(j) ==
    LET t == tasks[j]
    IN /\ t.pc = "cache_dict"
       /\ model_cache' = cache_new_dict(model_cache, t.model_id)
       /\ Goto(j, "cache_pipe")
       /\ UNCHANGED <<jobs, loaded_loras, pipes, files, response, unloads, status_query, image, lookup, env>>

\* `self.model_cache[model_id][mode] = pipe`; a KeyError when the model's dict is
\* gone, which load_*_model logs and raises again
CachePipe(j) ==
    LET t == tasks[j]
    IN /\ t.pc = "cache_pipe"
       /\ IF t.model_id \in DOMAIN model_cache
          THEN /\ model_cache' = cache_set(model_cache, t.model_id, t.fn, t.pipe)
               /\ Goto(j, "get_pipe")
               /\ UNCHANGED jobs
          ELSE /\ Raise(j, Error("KeyError", "model_cache", t.model_id))
               /\ UNCHANGED model_cache
       /\ UNCHANGED <<loaded_loras, pipes, files, response, unloads, status_query, image, lookup, env>>

-----------------------------------------------------------------------------
(* app/models.py: adapters (LoRAs) *)

\* the lora_specs generate_image[_inpaint] works with: generate_image drops them
\* for a FLUX model
effective_lora_specs(t) ==
    IF t.fn = "txt2img" /\ _is_flux_model(t.model_id) THEN << >> ELSE t.lora_specs

\* `if lora_specs:` and `if model_key:` around the call of apply_loras
calls_apply_loras(t) ==
    /\ effective_lora_specs(t) # << >>
    /\ _get_model_key_from_id(t.model_id) # None

\* load_lora before it looks at loaded_loras: whether it returns None at once
\* (unknown key, no source, incompatible model).  Every configured LoRA has a
\* lora_id, so a source is always found.
load_lora_refuses(lora_key, model_key) ==
    \/ lora_key \notin DOMAIN LORA_CONFIGS
    \/ ~is_lora_compatible(lora_key, model_key)

\* load_lora's tracking key of a pipeline: pipeline.config._name_or_path
tracking_key(pipe) == pipes[pipe].path

\* `model_id in self.loaded_loras and lora_key in self.loaded_loras[model_id]`
already_loaded(key, lora_key) ==
    /\ key \in DOMAIN loaded_loras
    /\ lora_key \in loaded_loras[key]

\* the two statements that track a loaded LoRA
track_lora(loaded, key, lora_key) ==
    IF key \in DOMAIN loaded
    THEN [loaded EXCEPT ![key] = @ \cup {lora_key}]
    ELSE (key :> {lora_key}) @@ loaded

\* apply_loras: the adapter of the current spec is in hand; collect its name, its
\* weight and its first trigger word, and go on with the next spec
collect_adapter(t, lora_key, weight) ==
    [t EXCEPT !.adapter_names = Append(@, lora_key),
              !.adapter_weights = Append(@, weight),
              !.trigger_words =
                  IF lora_key \in DOMAIN LORA_CONFIGS /\ LORA_CONFIGS[lora_key].trigger_words # << >>
                  THEN Append(@, LORA_CONFIGS[lora_key].trigger_words[1]) ELSE @]

\* the loop of apply_loras moves to the next spec, or leaves the loop
next_spec(t) ==
    IF t.i < Len(effective_lora_specs(t))
    THEN [t EXCEPT !.i = @ + 1, !.pc = "lora_check"]
    ELSE [t EXCEPT !.i = @ + 1, !.pc = "set_adapters"]

\* pipeline.set_adapters(names, adapter_weights): the engine raises when a name is
\* not an adapter of the pipeline; otherwise these adapters, and no others, are active
set_adapters(pipe, names, weights) ==
    IF \A n \in 1..Len(names) : names[n] \in pipe.adapters
    THEN [pipe EXCEPT !.active = [n \in 1..Len(names) |-> [name |-> names[n], weight |-> weights[n]]]]
    ELSE pipe

\* pipeline.disable_lora()
disable_lora(pipe) == [pipe EXCEPT !.active = << >>]

\* `pipe = self.model_cache[model_id][mode]`, a KeyError when the entry is gone;
\* then either apply_loras is entered or the engine is invoked
GetPipe(j) ==
    LET t == tasks[j]
    IN /\ t.pc = "get_pipe"
       /\ IF Cached(t.model_id, t.fn)
          THEN /\ tasks' = [tasks EXCEPT
                      ![j].pipe = model_cache[t.model_id][t.fn],
                      ![j].i = IF calls_apply_loras(t) THEN 1 ELSE 0,
                      ![j].pc = IF calls_apply_loras(t) THEN "lora_check" ELSE "generating"]
               /\ UNCHANGED jobs
          ELSE Raise(j, Error("KeyError", "model_cache", t.model_id))
       /\ UNCHANGED <<model_cache, loaded_loras, pipes, files, response, unloads, status_query, image, lookup, env>>

\* apply_loras, one spec: load_lora up to its look at loaded_loras
LoraCheck(j) ==
    LET t == tasks[j]
        spec == effective_lora_specs(t)[t.i]
        model_key == _get_model_key_from_id(t.model_id)
    IN /\ t.pc = "lora_check"
       /\ tasks' = [tasks EXCEPT ![j] =
              IF load_lora_refuses(spec.key, model_key) THEN next_spec(t)
              ELSE IF already_loaded(tracking_key(t.pipe), spec.key)
              THEN next_spec(collect_adapter(t, spec.key, spec.weight))
              ELSE [t EXCEPT !.pc = "lora_load"]]
       /\ UNCHANGED <<jobs, model_cache, loaded_loras, pipes, files, response, unloads, status_query, image, lookup, env>>

\* pipeline.load_lora_weights: the engine raises when the pipeline already has an
\* adapter of that name, and may raise for its own reasons (the weights cannot be
\* fetched or read); load_lora logs the error and returns None
LoraLoad(j) ==
    LET t == tasks[j]
        spec == effective_lora_specs(t)[t.i]
    IN /\ t.pc = "lora_load"
       /\ \E ok \in BOOLEAN :
            IF ok /\ spec.key \notin pipes[t.pipe].adapters
            THEN /\ pipes' = [pipes EXCEPT ![t.pipe].adapters = @ \cup {spec.key}]
                 /\ loaded_loras' = track_lora(loaded_loras, tracking_key(t.pipe), spec.key)
                 /\ tasks' = [tasks EXCEPT ![j] =
                        next_spec(collect_adapter(t, spec.key, spec.weight))]
            ELSE /\ tasks' = [tasks EXCEPT ![j] =
                        next_spec([t EXCEPT !.raised = @ \cup
                            {Error("LoraError", "load_lora_weights failed", spec.key)}])]
                 /\ UNCHANGED <<pipes, loaded_loras>>
       /\ UNCHANGED <<jobs, model_cache, files, response, unloads, status_query, image, lookup, env>>

\* the end of apply_loras: set_adapters with the adapters in hand, or disable_lora
\* when there is none; the engine is invoked next
SetAdapters(j) ==
    LET t == tasks[j]
    IN /\ t.pc = "set_adapters"
       /\ pipes' = [pipes EXCEPT ![t.pipe] =
              IF t.adapter_names # << >>
              THEN set_adapters(@, t.adapter_names, t.adapter_weights)
              ELSE disable_lora(@)]
       /\ tasks' = [tasks EXCEPT
              ![j].pc = "generating",
              ![j].raised =
                  IF t.adapter_names # << >> /\ pipes'[t.pipe] = pipes[t.pipe]
                       /\ \E n \in 1..Len(t.adapter_names) :
                             t.adapter_names[n] \notin pipes[t.pipe].adapters
                  THEN @ \cup {Error("ValueError", "set_adapters failed", tracking_key(t.pipe))}
                  ELSE @]
       /\ UNCHANGED <<jobs, model_cache, loaded_loras, files, response, unloads, status_query, image, lookup, env>>

-----------------------------------------------------------------------------
(* The engine runs, then the task writes the artifacts *)

\* generate_image passes no callback_on_step_end to a FLUX pipeline
has_step_callback(t) == ~(t.fn = "txt2img" /\ _is_flux_model(t.model_id))

\* what the report of a tick comes to: progress_callback returns, it raises an
\* IndexError or a RuntimeError, or it raises an error of another class; the
\* callbacks of "ticks" can raise, once in a job
TickOutcomes(e, t) ==
    IF e = "ticks" /\ has_step_callback(t) /\ ~t.dropped
    THEN {"reported", "handled", "unhandled"}
    ELSE {"reported"}

\* an error of a class step_callback does not handle, raised by the report of
\* a tick
TickError(t) == Error("KeyError", "progress callback failed", t.model_id)

\* `except (IndexError, RuntimeError)` of step_callback: the error is logged and
\* the step ends without a report
drop_tick(t) == [t EXCEPT !.step = @ + 1, !.dropped = TRUE]

\* one denoising step ends: step_callback reports it through update_progress,
\* handles what the report raises, or lets it through to the pipeline call
GenTick(j) ==
    LET t == tasks[j]
    IN /\ t.pc = "generating"
       /\ t.step < t.num_inference_steps
       /\ \E outcome \in TickOutcomes(env, t) :
            CASE outcome = "reported" ->
                   /\ tasks' = [tasks EXCEPT ![j].step = @ + 1]
                   /\ jobs' = IF has_step_callback(t)
                              THEN [jobs EXCEPT ![j].progress_percent =
                                        <<progress_tenths(t.step + 1, t.num_inference_steps)>>]
                              ELSE jobs
              [] outcome = "handled" ->
                   /\ tasks' = [tasks EXCEPT ![j] = drop_tick(@)]
                   /\ UNCHANGED jobs
              [] outcome = "unhandled" ->
                   /\ jobs' = [jobs EXCEPT ![j] = mark_failed(@, t.fn, TickError(t))]
                   /\ tasks' = [tasks EXCEPT ![j].pc = "done", ![j].dropped = TRUE,
                                             ![j].raised = @ \cup {TickError(t)}]
       /\ UNCHANGED <<model_cache, loaded_loras, pipes, files, response, unloads, status_query, image, lookup, env>>

\* the engine returns the image after its last step
GenEnd(j) ==
    LET t == tasks[j]
    IN /\ t.pc = "generating"
       /\ t.step = t.num_inference_steps
       /\ Goto(j, "save_png")
       /\ UNCHANGED <<jobs, model_cache, loaded_loras, pipes, files, response, unloads, status_query, image, lookup, env>>

\* the engine raises instead
GenFail(j) ==
    LET t == tasks[j]
    IN /\ t.pc = "generating"
       /\ Raise(j, Error("RuntimeError", "pipeline call failed", t.model_id))
       /\ UNCHANGED <<model_cache, loaded_loras, pipes, files, response, unloads, status_query, image, lookup, env>>

\* the names the metadata dict reads: generate_image_task has width and height as
\* parameters; the other two tasks have no such names, and reading them raises
metadata_error(fn) ==
    IF fn = "txt2img" THEN NoError
    ELSE Error("NameError", "name is not defined", "width")

\* a seed of the metadata dict: a number or the text "random"
Seed(n) == [kind |-> "seed", value |-> n]

RandomSeed == [kind |-> "random"]

\* metadata["seed"] of the task: `seed if seed else "random"`; 0 is falsy
metadata_seed(t) ==
    IF t.seed # << >> /\ t.seed[1] # 0 THEN Seed(t.seed[1]) ELSE RandomSeed

\* the generator the pipeline is called with: `if seed is not None`, a generator
\* seeded with the seed (a one-element sequence), otherwise none
generator(t) == t.seed

\* the file image.save(filepath, pnginfo=pnginfo) writes: {job_id}.png with the
\* text chunks of add_energy_metadata
png_file(job_id) == [name |-> job_id, ext |-> "png", meta |-> "pnginfo"]

\* faulty variant, to test the sensitivity of the properties: the JPEG is saved without its EXIF
jpeg_file_without_exif(job_id) == [name |-> job_id, ext |-> "jpg", meta |-> "none"]

\* the file jpeg_image.save(jpeg_filepath, ..., exif=exif_bytes) writes:
\* {job_id}.jpg with the EXIF of add_energy_metadata_jpeg
jpeg_file(job_id) == [name |-> job_id, ext |-> "jpg", meta |-> "exif"]

\* what the embedding of the metadata and the save of a file come to: both
\* return, add_energy_metadata[_jpeg] raises (a text it cannot encode), or
\* image.save raises
SaveOutcomes == {"saved", "metadata_error", "write_error"}

\* the error of a save that did not return
SaveError(outcome, ext) ==
    IF outcome = "metadata_error"
    THEN Error("UnicodeEncodeError", "cannot embed metadata", ext)
    ELSE Error("OSError", "cannot write file", ext)

\* the metadata dict, then add_energy_metadata and image.save of the PNG, which
\* return or raise
SavePng(j) ==
    LET t == tasks[j]
    IN /\ t.pc = "save_png"
       /\ IF metadata_error(t.fn) # NoError
          THEN /\ Raise(j, metadata_error(t.fn))
               /\ UNCHANGED files
          ELSE \E outcome \in SaveOutcomes :
                 IF outcome = "saved"
                 THEN /\ files' = files \cup {png_file(jobs[j].job_id)}
                      /\ Goto(j, "save_jpg")
                      /\ UNCHANGED jobs
                 ELSE /\ Raise(j, SaveError(outcome, "png"))
                      /\ UNCHANGED files
       /\ UNCHANGED <<model_cache, loaded_loras, pipes, response, unloads, status_query, image, lookup, env>>

\* the EXIF bytes and the save of the JPEG, which returns or raises; then
\* set_finder_comment, which never raises, and the base64 preview
SaveJpg(j) ==
    LET t == tasks[j]
    IN /\ t.pc = "save_jpg"
       /\ \E outcome \in SaveOutcomes :
            IF outcome = "saved"
            THEN /\ files' = files \cup {jpeg_file(jobs[j].job_id)}
                 /\ Goto(j, "complete")
                 /\ UNCHANGED jobs
            ELSE /\ Raise(j, SaveError(outcome, "jpg"))
                 /\ UNCHANGED files
       /\ UNCHANGED <<model_cache, loaded_loras, pipes, response, unloads, status_query, image, lookup, env>>

\* the last update of the task
Complete(j) ==
    LET t == tasks[j]
    IN /\ t.pc = "complete"
       /\ jobs' = [jobs EXCEPT ![j] = mark_completed(@, t.fn)]
       /\ Goto(j, "done")
       /\ UNCHANGED <<model_cache, loaded_loras, pipes, files, response, unloads, status_query, image, lookup, env>>

-----------------------------------------------------------------------------
(* StableDiffusionModel.unload_model *)

\* the arguments unload_model is called with: None (every model, as the shutdown
\* handler does) or a model id
UnloadArgs(e) == {None, "runwayml/stable-diffusion-v1-5"}

\* model_cache after unload_model(model_id)
unload_cache(cache, model_id) ==
    IF model_id # None
    THEN [m \in DOMAIN cache \ {model_id} |-> cache[m]]
    ELSE << >>

\* loaded_loras after unload_model(model_id), called with this cache
unload_loras(loaded, cache, model_id) ==
    IF model_id # None
    THEN IF model_id \in DOMAIN cache
         THEN [k \in DOMAIN loaded \ {model_id} |-> loaded[k]]
         ELSE loaded
    ELSE IF DOMAIN cache # {} THEN << >> ELSE loaded

unload_model(model_id) ==
    /\ unloads < MaxUnloads
    /\ unloads' = unloads + 1
    /\ model_cache' = unload_cache(model_cache, model_id)
    /\ loaded_loras' = unload_loras(loaded_loras, model_cache, model_id)
    /\ UNCHANGED <<jobs, tasks, pipes, files, response, status_query, image, lookup, env>>

-----------------------------------------------------------------------------
(* The system *)

InitWith(e) ==
    /\ jobs = << >>
    /\ tasks = << >>
    /\ model_cache = << >>
    /\ loaded_loras = << >>
    /\ pipes = << >>
    /\ files = {}
    /\ response = [kind |-> "none"]
    /\ unloads = 0
    /\ status_query = [pc |-> "idle"]
    /\ image = NoImage
    /\ lookup = NoLookup
    /\ env = e

Init == InitWith("jobs")

SubmitNext ==
    \/ \E request \in GenerateRequests(env) : generate_image(request)
    \/ \E form \in Img2ImgForms(env) : generate_img2img(form)
    \/ \E form \in InpaintForms(env) : generate_inpaint(form)

\* submissions and the worker threads of the background tasks
Next ==
    \/ SubmitNext
    \/ \E j \in DOMAIN tasks : TaskStart(j)
    \/ \E j \in DOMAIN tasks : Acquire(j)
    \/ \E j \in DOMAIN tasks : FromPretrained(j)
    \/ \E j \in DOMAIN tasks : CacheDict(j)
    \/ \E j \in DOMAIN tasks : CachePipe(j)
    \/ \E j \in DOMAIN tasks : GetPipe(j)
    \/ \E j \in DOMAIN tasks : LoraCheck(j)
    \/ \E j \in DOMAIN tasks : LoraLoad(j)
    \/ \E j \in DOMAIN tasks : SetAdapters(j)
    \/ \E j \in DOMAIN tasks : GenTick(j)
    \/ \E j \in DOMAIN tasks : GenEnd(j)
    \/ \E j \in DOMAIN tasks : GenFail(j)
    \/ \E j \in DOMAIN tasks : SavePng(j)
    \/ \E j \in DOMAIN tasks : SaveJpg(j)
    \/ \E j \in DOMAIN tasks : Complete(j)

Spec == Init /\ [][Next]_vars

\* the same, with calls of unload_model at any time
NextRelease ==
    \/ Next
    \/ \E model_id \in UnloadArgs(env) : unload_model(model_id)

SpecRelease == Init /\ [][NextRelease]_vars

\* a step of the background task of job j
TaskNext(j) ==
    /\ j \in DOMAIN tasks
    /\ \/ TaskStart(j) \/ Acquire(j) \/ FromPretrained(j) \/ CacheDict(j) \/ CachePipe(j)
       \/ GetPipe(j) \/ LoraCheck(j) \/ LoraLoad(j) \/ SetAdapters(j)
       \/ GenTick(j) \/ GenEnd(j) \/ GenFail(j) \/ SavePng(j) \/ SaveJpg(j) \/ Complete(j)

\* Spec, where the thread pool runs every queued task and goes on running it, and
\* every call of the engine and of the file system returns or raises
SpecLive == Init /\ [][Next]_vars /\ \A j \in 1..MaxJobs : WF_vars(TaskNext(j))

\* Spec for a service configured with MAX_CONCURRENT_JOBS=1
InitPool == InitWith("pool")

SpecPool == InitPool /\ [][Next]_vars

\* one job at a time: a request is submitted when every task has ended
AllDone == \A j \in DOMAIN tasks : tasks[j].pc = "done"

NextSeq ==
    \/ AllDone /\ \E request \in GenerateRequests(env) : generate_image(request)
    \/ AllDone /\ \E form \in Img2ImgForms(env) : generate_img2img(form)
    \/ AllDone /\ \E form \in InpaintForms(env) : generate_inpaint(form)
    \/ \E j \in DOMAIN tasks : TaskStart(j)
    \/ \E j \in DOMAIN tasks : Acquire(j)
    \/ \E j \in DOMAIN tasks : FromPretrained(j)
    \/ \E j \in DOMAIN tasks : CacheDict(j)
    \/ \E j \in DOMAIN tasks : CachePipe(j)
    \/ \E j \in DOMAIN tasks : GetPipe(j)
    \/ \E j \in DOMAIN tasks : LoraCheck(j)
    \/ \E j \in DOMAIN tasks : LoraLoad(j)
    \/ \E j \in DOMAIN tasks : SetAdapters(j)
    \/ \E j \in DOMAIN tasks : GenTick(j)
    \/ \E j \in DOMAIN tasks : GenEnd(j)
    \/ \E j \in DOMAIN tasks : GenFail(j)
    \/ \E j \in DOMAIN tasks : SavePng(j)
    \/ \E j \in DOMAIN tasks : SaveJpg(j)
    \/ \E j \in DOMAIN tasks : Complete(j)

InitSeq == InitWith("seq")

SpecSeq == InitSeq /\ [][NextSeq]_vars

\* one job at a time, with requests whose adapters have every kind of weight
SpecLookup == Init /\ [][Lookup]_vars

InitMps == InitWith("mps")

SpecMps == InitMps /\ [][NextSeq]_vars

InitTicks == InitWith("ticks")

SpecTicks == InitTicks /\ [][NextSeq]_vars

InitSeeds == InitWith("seeds")

SpecSeeds == InitSeeds /\ [][NextSeq]_vars

InitWeights == InitWith("weights")

SpecWeights == InitWeights /\ [][NextSeq]_vars

\* one job at a time, with calls of unload_model at any time
NextSeqRelease ==
    \/ NextSeq
    \/ \E model_id \in UnloadArgs(env) : unload_model(model_id)

SpecSeqRelease == InitSeq /\ [][NextSeqRelease]_vars

\* one job at a time, and a client that polls GET /api/status/{job_id} while the
\* task runs in its worker thread
NextStatus ==
    \/ NextSeq
    \/ \E job_id \in 1..(MaxJobs + 1) : GetStatusStart(job_id)
    \/ GetStatusRead
    \/ GetStatusReturn

SpecStatus == Init /\ [][NextStatus]_vars

\* the preprocessing alone, of an init image of any of the sizes, in both modes
InitImage ==
    /\ jobs = << >>
    /\ tasks = << >>
    /\ model_cache = << >>
    /\ loaded_loras = << >>
    /\ pipes = << >>
    /\ files = {}
    /\ response = [kind |-> "none"]
    /\ unloads = 0
    /\ status_query = [pc |-> "idle"]
    /\ lookup = NoLookup
    /\ env = "jobs"
    /\ image \in {[fn |-> fn, raised |-> FALSE, sizes |-> <<<<w, h>>>>] :
                    fn \in {"img2img", "inpaint"}, w \in ImageSides, h \in ImageSides}

SpecImage == InitImage /\ [][Preprocess]_vars

\* the submission handlers alone, with requests of every kind the handlers tell apart
\* an inpaint request with its init image, its mask and its blur fields
InitMask ==
    /\ jobs = << >>
    /\ tasks = << >>
    /\ model_cache = << >>
    /\ loaded_loras = << >>
    /\ pipes = << >>
    /\ files = {}
    /\ response = [kind |-> "none"]
    /\ unloads = 0
    /\ status_query = [pc |-> "idle"]
    /\ lookup = NoLookup
    /\ env = "jobs"
    /\ image \in {[fn |-> "inpaint", pc |-> "submitted", raised |-> FALSE,
                   sizes |-> <<<<w, h>>>>, mask_size |-> <<mw, mh>>,
                   blur_mask |-> bm, blur_factor |-> bf, mask |-> << >>] :
                    w \in ImageSides, h \in ImageSides, mw \in MaskSides, mh \in MaskSides,
                    bm \in BOOLEAN, bf \in BlurFactors}

NextMask ==
    \/ CheckBlur
    \/ InpaintInitImage
    \/ InpaintMask

SpecMask == InitMask /\ [][NextMask]_vars

InitSubmit == InitWith("submit")

SpecSubmit == InitSubmit /\ [][SubmitNext]_vars

-----------------------------------------------------------------------------
(* Properties *)

Terminal(status) == status \in {"completed", "failed"}

\* the steps the state machine of a job allows
StatusStep(old, new) ==
    \/ new = old
    \/ old = "pending" /\ new = "processing"
    \/ old = "processing" /\ new \in {"completed", "failed"}

\* C1: a job enters the table as pending, its status changes only along
\* pending -> processing -> completed or failed, and once get_status has shown a
\* terminal state for a job it shows that state ever after.
C1_JobLifecycle ==
    [][/\ \A j \in DOMAIN jobs :
            /\ j \in DOMAIN jobs'
            /\ StatusStep(jobs[j].status, jobs'[j].status)
            /\ Terminal(get_status(j).status) => get_status(j)'.status = get_status(j).status
       /\ \A j \in DOMAIN jobs' \ DOMAIN jobs : jobs'[j].status = "pending"]_vars

\* C1, its case: one job has completed and another has failed
C1_Witness ==
    \E j, k \in DOMAIN jobs : jobs[j].status = "completed" /\ jobs[k].status = "failed"

\* C2: a (model, mode) pair is loaded at most once (unload_model is never called
\* in this specification), however the acquisitions of concurrent jobs interleave.
C2_SingleLoad ==
    \A p, q \in DOMAIN pipes :
        pipes[p].model_id = pipes[q].model_id /\ pipes[p].mode = pipes[q].mode => p = q

\* C3: a step of a task leaves the cache entry of every (model, mode) pair
\* other than the task's own in the cache, with the pipeline it had.
C3_NoOverwrite ==
    [][\A j \in DOMAIN tasks :
          tasks'[j] # tasks[j] =>
            \A m \in DOMAIN model_cache :
              \A mode \in DOMAIN model_cache[m] :
                m # tasks[j].model_id \/ mode # tasks[j].fn =>
                    /\ m \in DOMAIN model_cache'
                    /\ mode \in DOMAIN model_cache'[m]
                    /\ model_cache'[m][mode] = model_cache[m][mode]]_vars

\* the task holds the pipeline it took from the cache
HoldsPipe(t) ==
    t.pc \in {"lora_check", "lora_load", "set_adapters", "generating",
              "save_png", "save_jpg", "complete"}

\* C4: when the jobs run one after the other and nothing is unloaded, a
\* (model, mode) pair is loaded once, its entry is that pipeline, and every job
\* of the pair works with it.
C4_SequentialReuse ==
    /\ \A p, q \in DOMAIN pipes :
          pipes[p].model_id = pipes[q].model_id /\ pipes[p].mode = pipes[q].mode => p = q
    /\ \A j \in DOMAIN tasks :
          HoldsPipe(tasks[j]) =>
             /\ pipes[tasks[j].pipe].model_id = tasks[j].model_id
             /\ pipes[tasks[j].pipe].mode = tasks[j].fn
             /\ Cached(tasks[j].model_id, tasks[j].fn)
             /\ model_cache[tasks[j].model_id][tasks[j].fn] = tasks[j].pipe
    /\ \A j, k \in DOMAIN tasks :
          /\ tasks[j].pipe # 0 /\ tasks[k].pipe # 0
          /\ tasks[j].model_id = tasks[k].model_id /\ tasks[j].fn = tasks[k].fn
          => tasks[j].pipe = tasks[k].pipe

\* C4, its case: a second job of a pair works with the pipeline the first job
\* loaded
C4_Witness ==
    \E j, k \in DOMAIN tasks :
        /\ j < k
        /\ tasks[j].pc = "done" /\ tasks[j].pipe # 0
        /\ HoldsPipe(tasks[k])
        /\ tasks[k].model_id = tasks[j].model_id /\ tasks[k].fn = tasks[j].fn
        /\ tasks[k].pipe = tasks[j].pipe
        /\ Len(pipes) = 1

\* the steps of a task that change or use the adapters of its pipeline: the
\* loading of weights, set_adapters or disable_lora, and the engine's run
UsesAdapters(t) == t.pc \in {"lora_load", "set_adapters", "generating"}

\* C5: while the engine runs a job on a pipeline, no other job is loading or
\* activating adapters on that pipeline or running the engine on it.
C5_CriticalSection ==
    \A j, k \in DOMAIN tasks :
        j # k /\ tasks[j].pc = "generating" /\ UsesAdapters(tasks[k])
            => tasks[j].pipe # tasks[k].pipe

\* C6: while the engine runs a job that asked for no adapters, no adapter is
\* active on its pipeline, whatever the jobs before it activated.
C6_NoStaleAdapters ==
    \A j \in DOMAIN tasks :
        tasks[j].pc = "generating" /\ tasks[j].lora_specs = << >>
            => pipes[tasks[j].pipe].active = << >>

\* the errors of the operations a task calls: the registry lookup, the
\* acquisition of the pipeline, the adapters, the engine and the file writes
OperationFailures ==
    {"Unknown model key", "Unknown model ID", "Model does not support inpainting",
     "No inpainting model found", "from_pretrained failed", "model_cache",
     "load_lora_weights failed", "set_adapters failed", "pipeline call failed",
     "cannot write file", "cannot embed metadata"}

\* C7: in every mode, a task that has ended and none of whose operations
\* (acquisition, adapters, engine, file writes) failed has completed its job.
C7_SuccessCompletes ==
    \A j \in DOMAIN tasks :
        /\ tasks[j].pc = "done"
        /\ \A e \in tasks[j].raised : e.msg \notin OperationFailures
        => jobs[j].status = "completed"

\* C8: a job during whose execution an error was raised is never completed, and
\* once its task has ended it is failed with a message that carries that error.
C8_ErrorsFailTheJob ==
    \A j \in DOMAIN tasks :
        tasks[j].raised # {} =>
            /\ jobs[j].status # "completed"
            /\ tasks[j].pc = "done" =>
                  /\ jobs[j].status = "failed"
                  /\ jobs[j].message.error \in tasks[j].raised

\* C9: a generate_image request whose width or height is not a multiple of 8
\* is rejected, and a rejected submission of any of the three handlers returns no
\* job identifier, queues no task and leaves the job table as it was.  Stated
\* from the result of a step: a step that does not answer with a rejection is not
\* a generate_image step for such a request, and a step that answers with a
\* rejection and changes the table or the tasks, or names a job, is not a step
\* of a handler.
C9_RejectedSynchronously ==
    [][/\ response'.kind # "rejected" =>
            \A request \in GenerateRequests(env) :
                request.width % 8 # 0 \/ request.height % 8 # 0 => ~generate_image(request)
       /\ /\ response'.kind = "rejected"
          /\ jobs' # jobs \/ tasks' # tasks \/ "job_id" \in DOMAIN response'
          => ~ \/ \E request \in GenerateRequests(env) : generate_image(request)
               \/ \E form \in Img2ImgForms(env) : generate_img2img(form)
               \/ \E form \in InpaintForms(env) : generate_inpaint(form)]_vars

\* C9, its case: a request was rejected for its dimensions when the table held a job
C9_Witness ==
    /\ response = Rejected(400, <<"Width and height must be multiples of 8">>)
    /\ Len(jobs) > 0

\* C10: an inpaint submission for a model whose descriptor has inpaint off is
\* rejected with the unsupported-model message; no job is created, no task is
\* queued, and the pipeline cache and the pipelines are untouched.
C10_InpaintUnsupported ==
    [][\A form \in InpaintForms(env) :
            /\ form.model_key \in DOMAIN MODEL_CONFIGS
            /\ ~MODEL_CONFIGS[form.model_key].inpaint
            /\ generate_inpaint(form)
            => /\ response' = Rejected(400, <<"Model does not support inpainting", form.model_key>>)
               /\ jobs' = jobs
               /\ tasks' = tasks
               /\ model_cache' = model_cache
               /\ pipes' = pipes]_vars

\* C10, its case: an inpaint request for flux-schnell was rejected when the table held a job
C10_Witness ==
    /\ response = Rejected(400, <<"Model does not support inpainting", "flux-schnell">>)
    /\ Len(jobs) > 0

\* the adapters a request asks for that are not in the compatibility set of its
\* model, by the registry: for generate_image the keys of request.loras, for
\* generate_inpaint the keys of the objects of the parsed list that have one
Incompatible(keys, model_key) ==
    {k \in keys : k \notin DOMAIN LORA_CONFIGS \/ model_key \notin LORA_CONFIGS[k].compatible_models}

RequestKeys(request) == {request.loras[n].key : n \in DOMAIN request.loras}

FormKeys(form) ==
    IF form.loras.json # "list" THEN {}
    ELSE {form.loras.list[n].key[1] :
            n \in {x \in DOMAIN form.loras.list : form.loras.list[x].key # << >>}}

\* the requests of each set that ask for an incompatible adapter
IncompatibleRequestsBy ==
    [e \in Envs |-> {q \in GenerateRequestsBy[e] : Incompatible(RequestKeys(q), q.model_key) # {}}]

IncompatibleFormsBy ==
    [e \in Envs |-> {f \in InpaintFormsBy[e] : Incompatible(FormKeys(f), f.model_key) # {}}]

IsLoraRejection(r) ==
    /\ r.kind = "rejected"
    /\ r.detail[1] = "LoRA is not compatible with model"

\* generate_inpaint checks the adapters of a form that passed its checks of the
\* model, the file types, the strength and the blur factor
ReachesLoraCheck(form) ==
    /\ form.model_key \in DOMAIN MODEL_CONFIGS /\ MODEL_CONFIGS[form.model_key].inpaint
    /\ form.content_type \in allowed_types /\ form.mask_content_type \in allowed_types
    /\ form.strength \in 0..100 /\ form.blur_factor \in 0..100

\* what the handlers answer to the requests of each set that ask for an
\* incompatible adapter and that no earlier check of the handler rejects
AdapterAnswersBy ==
    [e \in Envs |->
        {ValidateGenerate(q) : q \in {x \in IncompatibleRequestsBy[e] :
                                        x.width % 8 = 0 /\ x.height % 8 = 0}}
        \cup {ValidateInpaint(f) : f \in {x \in IncompatibleFormsBy[e] : ReachesLoraCheck(x)}}]

\* C11: a submission that asks for an adapter outside the compatibility set of
\* its model is never accepted; when no earlier check of the handler rejects it,
\* the rejection is the incompatible-adapter one; and that rejection names an
\* adapter of the request that is incompatible with the requested model, and
\* reports exactly the adapters compatible with that model, the named one not
\* among them.
C11_IncompatibleAdapterRejected ==
    [][LET r == response'
       IN /\ r.kind # "rejected" =>
               /\ \A request \in IncompatibleRequestsBy[env] : ~generate_image(request)
               /\ \A form \in IncompatibleFormsBy[env] : ~generate_inpaint(form)
          /\ r.kind = "rejected" /\ ~IsLoraRejection(r) => r \notin AdapterAnswersBy[env]
          /\ IsLoraRejection(r) =>
               /\ r.detail[2] \in Incompatible({r.detail[2]}, r.detail[3])
               /\ {r.detail[4][n] : n \in DOMAIN r.detail[4]} =
                      {k \in DOMAIN LORA_CONFIGS : r.detail[3] \in LORA_CONFIGS[k].compatible_models}
               /\ \A n \in DOMAIN r.detail[4] : r.detail[4][n] # r.detail[2]
               /\ \A request \in GenerateRequests(env) :
                      generate_image(request) =>
                          /\ r.detail[2] \in RequestKeys(request)
                          /\ r.detail[3] = request.model_key
               /\ \A form \in InpaintForms(env) :
                      generate_inpaint(form) =>
                          /\ r.detail[2] \in FormKeys(form)
                          /\ r.detail[3] = form.model_key]_vars

\* C11, its case: thangka was asked for with sd-v1-5 and the request was
\* rejected, with the two adapters of the standard-resolution models reported
C11_Witness ==
    /\ response = Rejected(400, <<"LoRA is not compatible with model", "thangka", "sd-v1-5",
                                  <<"watercolor", "anime-ghibli">>>>)
    /\ Len(jobs) > 0

\* the identifiers a client may ask about: those of the jobs and one that no
\* submission returns
JobIds == 1..(MaxJobs + 1)

\* C12: get_status answers not found, with no status in the answer, exactly
\* for the identifiers no submission has returned: an identifier stops being
\* unknown only in the step whose response returns it, the identifier a response
\* returns is known from then on, and a known identifier never becomes unknown.
C12_NotFoundExactly ==
    [][\A id \in JobIds :
          /\ get_status(id).kind \in {"not_found", "status"}
          /\ get_status(id).kind = "not_found" =>
                /\ "status" \notin DOMAIN get_status(id)
                /\ \A j \in DOMAIN jobs : jobs[j].job_id # id
          /\ get_status(id).kind = "status" => get_status(id)'.kind = "status"
          /\ get_status(id).kind = "not_found" /\ get_status(id)'.kind = "status" =>
                /\ response' # response
                /\ response'.kind = "accepted"
                /\ response'.job_id = id
          /\ response' # response /\ response'.kind = "accepted" /\ response'.job_id = id =>
                /\ get_status(id).kind = "not_found"
                /\ get_status(id)'.kind = "status"]_vars

\* C12, its case: a job has failed, its identifier is known, and the next
\* identifier is still unknown
C12_Witness ==
    \E j \in DOMAIN jobs :
        /\ jobs[j].status = "failed"
        /\ get_status(j).kind = "status" /\ get_status(j).status = "failed"
        /\ get_status(Len(jobs) + 1).kind = "not_found"

\* C13: the view get_status returns for a completed job has the reference to
\* the stored image and the base64 preview that the task recorded in the job.
C13_ViewHasPreview ==
    \A j \in DOMAIN jobs :
        jobs[j].status = "completed" =>
            /\ "image_url" \in DOMAIN get_status(j)
            /\ get_status(j).image_url = jobs[j].image_url
            /\ get_status(j).image_url # << >>
            /\ "image_base64" \in DOMAIN get_status(j)
            /\ get_status(j).image_base64 = jobs[j].image_base64
            /\ get_status(j).image_base64 # << >>

\* C14: in every state a completed job has its result, the reference to the
\* image named by the job and the preview, and a failed job has a failure
\* message, which is not empty and carries the error.
C14_TerminalCarriesOutcome ==
    \A j \in DOMAIN jobs :
        /\ jobs[j].status = "completed" =>
              /\ jobs[j].image_url = <<[dir |-> "/images/", name |-> jobs[j].job_id, ext |-> "png"]>>
              /\ jobs[j].image_base64 # << >>
        /\ jobs[j].status = "failed" =>
              /\ jobs[j].message.text \in {FailurePrefix(fn) : fn \in {"txt2img", "img2img", "inpaint"}}
              /\ jobs[j].message.text # ""
              /\ jobs[j].message.error # NoError

\* C14, its case: a job has completed with its result while another has failed
\* in the engine
C14_Witness ==
    \E j, k \in DOMAIN jobs :
        /\ jobs[j].status = "completed" /\ jobs[j].image_base64 # << >>
        /\ jobs[k].status = "failed" /\ jobs[k].message.error.exc = "RuntimeError"

\* C15: whenever get_status shows a job as completed, the PNG and the JPEG
\* named by the job are in the output directory, each with its metadata.
C15_CompletedAfterFiles ==
    \A id \in JobIds :
        get_status(id).kind = "status" /\ get_status(id).status = "completed" =>
            /\ [name |-> id, ext |-> "png", meta |-> "pnginfo"] \in files
            /\ [name |-> id, ext |-> "jpg", meta |-> "exif"] \in files

\* C15, its case: a job is completed, with its two files, while the other job
\* has written its PNG and not yet its JPEG
C15_Witness ==
    \E j, k \in DOMAIN jobs :
        /\ get_status(j).status = "completed"
        /\ {f \in files : f.name = j} = {png_file(j), jpeg_file(j)}
        /\ tasks[k].pc = "save_jpg"
        /\ get_status(k).status = "processing"

C17_JobsTerminate ==
    \A j \in 1..MaxJobs : [](j \in DOMAIN jobs => <>(j \in DOMAIN jobs /\ Terminal(jobs[j].status)))

\* C17, its case: a task has ended and left its job completed or failed while
\* the engine is running the other job
C17_Witness ==
    \E j, k \in DOMAIN tasks :
        /\ tasks[j].pc = "done" /\ Terminal(jobs[j].status)
        /\ tasks[k].pc = "generating" /\ tasks[k].step > 0

\* C18: the number of jobs that are processing is at most the configured
\* max_concurrent_jobs.
C18_BoundedProcessing ==
    Cardinality({j \in DOMAIN jobs : jobs[j].status = "processing"})
        <= Settings(env).max_concurrent_jobs

\* C19: a status view returned while the job runs comes from one state of the
\* job: a view that is not completed has no result reference and no generation
\* time, and a completed view has both.
C19_NoTornView ==
    (status_query.pc = "returned" /\ status_query.response.kind = "status") =>
        LET view == status_query.response
        IN /\ view.status # "completed" =>
                view.image_url = << >> /\ view.generation_time = << >>
           /\ view.status = "completed" =>
                view.image_url # << >> /\ view.generation_time # << >>

\* the pipelines a model has in the cache, of every mode
CachedHandles(model_id) ==
    {model_cache[model_id][mode] : mode \in DOMAIN model_cache[model_id]}

\* C20: unload_model(model_id) of a cached model removes the model's cache
\* entry and the adapter bookkeeping of each of its pipelines, the inpaint one
\* included, and leaves the entries and the bookkeeping of the other models as
\* they were.
C20_ReleaseOneModel ==
    [][unloads' # unloads =>
         \A model_id \in UnloadArgs(env) \ {None} :
            (model_id \in DOMAIN model_cache /\ unload_model(model_id)) =>
                LET keys == {tracking_key(p) : p \in CachedHandles(model_id)}
                IN /\ model_id \notin DOMAIN model_cache'
                   /\ \A k \in keys \cup {model_id} : k \notin DOMAIN loaded_loras'
                   /\ \A m \in DOMAIN model_cache \ {model_id} :
                         m \in DOMAIN model_cache' /\ model_cache'[m] = model_cache[m]
                   /\ \A k \in DOMAIN loaded_loras \ (keys \cup {model_id}) :
                         k \in DOMAIN loaded_loras' /\ loaded_loras'[k] = loaded_loras[k]
      ]_vars

\* C21: unload_model() with no model id leaves the cache and the adapter
\* bookkeeping empty; unload_model with nothing in the cache, or with a model id
\* that is not in the cache, changes nothing.
C21_ReleaseAll ==
    [][unloads' # unloads =>
         /\ unload_model(None) => model_cache' = << >> /\ loaded_loras' = << >>
         /\ \A model_id \in UnloadArgs(env) :
               /\ unload_model(model_id)
               /\ model_cache = << >> \/ (model_id # None /\ model_id \notin DOMAIN model_cache)
               => UNCHANGED <<model_cache, loaded_loras, pipes, jobs, tasks, files>>
      ]_vars

\* the error a failed from_pretrained raises for the pipeline of task t
LoadError(t) == Error("OSError", "from_pretrained failed", PretrainedId(t.model_id, t.fn))

\* C22: when from_pretrained fails for a job, the job is failed with that error
\* and its task ends, so the load is not tried again for it (a task enters the
\* load from its cache check only, and an ended task stays ended); the cache and
\* the pipelines are as before; and a job that finds the pair missing from the
\* cache goes on to load it, whatever failed before.
C22_LoadFailure ==
    [][\A j \in DOMAIN tasks :
          LET t == tasks[j]
              u == tasks'[j]
          IN /\ t.pc = "from_pretrained" /\ u.pc = "done" =>
                   /\ jobs'[j].status = "failed"
                   /\ jobs'[j].message.error = LoadError(t)
                   /\ model_cache' = model_cache
                   /\ pipes' = pipes
             /\ t.pc = "done" => u.pc = "done"
             /\ u.pc = "from_pretrained" /\ t.pc # "from_pretrained" => t.pc = "acquire"
             /\ u.pc = "acquire" => t.pc \in {"queued", "acquire"}
             /\ t.pc = "acquire" /\ u.pc # "acquire" /\ u.model_id # None
                  /\ ~Cached(u.model_id, t.fn) /\ load_checks(u.model_id, t.fn) = NoError
                  => u.pc = "from_pretrained"
      ]_vars

\* a job failed when its pipeline was loaded, and a later job for the same model
\* and mode is loading the pipeline
C22_Witness ==
    \E j, k \in DOMAIN tasks :
        /\ j < k
        /\ jobs[j].status = "failed"
        /\ jobs[j].message.error.msg = "from_pretrained failed"
        /\ tasks[k].fn = tasks[j].fn
        /\ tasks[k].model_key = tasks[j].model_key
        /\ tasks[k].pc = "from_pretrained"

\* the task has ended with an error raised after it had put its pipeline into
\* the cache
FailedAfterLoad(j) ==
    /\ tasks[j].pc = "done"
    /\ jobs[j].status = "failed"
    /\ tasks[j].pipe # 0

\* C23: with the jobs run one after the other, a job that fails after its
\* pipeline was loaded leaves the cache as it is; as long as unload_model is not
\* called the pipeline stays the entry of its (model, mode); a job that finds
\* the entry loads nothing; and an entry goes away in a step of unload_model
\* only.
C23_FailureKeepsEntry ==
    [][/\ \A j \in DOMAIN tasks :
             LET t == tasks[j]
                 u == tasks'[j]
             IN /\ t.pc # "done" /\ u.pc = "done" /\ jobs'[j].status = "failed"
                     => model_cache' = model_cache
                /\ FailedAfterLoad(j) /\ unloads = 0 =>
                     /\ Cached(t.model_id, t.fn)
                     /\ model_cache[t.model_id][t.fn] = t.pipe
                /\ t.pc = "acquire" /\ u.model_id # None /\ Cached(u.model_id, t.fn)
                     => u.pc = "get_pipe" /\ pipes' = pipes
       /\ \A m \in DOMAIN model_cache : \A mode \in DOMAIN model_cache[m] :
             \/ unloads' # unloads
             \/ /\ m \in DOMAIN model_cache'
                /\ mode \in DOMAIN model_cache'[m]
                /\ model_cache'[m][mode] = model_cache[m][mode]
      ]_vars

\* a job failed after its pipeline was loaded, nothing was unloaded, and the
\* next job of the same model and mode works with that pipeline
C23_Witness ==
    \E j, k \in DOMAIN tasks :
        /\ j < k
        /\ FailedAfterLoad(j)
        /\ unloads = 0
        /\ tasks[k].fn = tasks[j].fn
        /\ tasks[k].model_id = tasks[j].model_id
        /\ tasks[k].pipe = tasks[j].pipe
        /\ tasks[k].pc = "generating"
        /\ LoadCount(tasks[j].model_id, tasks[j].fn) = 1

\* a size the preprocessing is said to leave alone
Normalized(size) ==
    /\ size[1] % 8 = 0 /\ size[2] % 8 = 0
    /\ size[1] <= max_size /\ size[2] <= max_size

\* C24: in both modes, preprocessing the size the preprocessing gave gives that
\* size again, and a size of multiples of 8 that are at most max_size is left
\* as it is; preprocessing a size the preprocessing gave raises nothing.
C24_PreprocessIdempotent ==
    image.fn # None =>
        /\ \A n \in 2..(Len(image.sizes) - 1) : image.sizes[n + 1] = image.sizes[n]
        /\ Len(image.sizes) >= 2 /\ Normalized(image.sizes[1]) => image.sizes[2] = image.sizes[1]
        /\ ~(image.raised /\ Len(image.sizes) >= 2)

\* an image that was resized and rounded has been preprocessed once more
C24_Witness ==
    /\ image.fn = "inpaint"
    /\ Len(image.sizes) = 3
    /\ image.sizes[1] = <<3000, 1000>>
    /\ image.sizes[2] # image.sizes[1]

\* `trigger_prefix + prompt`, the prompt generate_image gives to the pipeline:
\* the trigger words, then the prompt
prepend_trigger_words(trigger_words, prompt) == trigger_words \o <<prompt>>

\* metadata["prompt"] of the task: its `prompt` argument
metadata_prompt(t) == t.prompt

\* C25: the prompt a completed job with adapters has in its record and in the
\* metadata of its files is the submitted prompt with the first trigger word of
\* each applied adapter before it.
C25_StoredPromptPrefixed ==
    \A j \in DOMAIN tasks :
        jobs[j].status = "completed" /\ tasks[j].adapter_names # << >> =>
            LET prefixed == prepend_trigger_words(tasks[j].trigger_words, tasks[j].prompt)
            IN /\ <<jobs[j].prompt>> = prefixed
               /\ <<metadata_prompt(tasks[j])>> = prefixed

\* the weight an adapter is to be applied with: the one the request gives, the
\* configured default when it gives none
RequestedWeight(given, lora_key) ==
    IF given # << >> THEN given ELSE <<LORA_CONFIGS[lora_key].default_weight>>

\* the adapters of a POST /api/generate request, with these weights
RequestedSpecs(loras) ==
    [n \in 1..Len(loras) |-> Lora(loras[n].key, RequestedWeight(loras[n].weight, loras[n].key))]

HasKey(lora) == lora.key # << >>

\* the adapters of the `loras` field of a POST /api/generate_inpaint form, with
\* these weights
RequestedJsonSpecs(lora_list) ==
    LET named == SelectSeq(lora_list, HasKey)
    IN [n \in 1..Len(named) |->
          Lora(named[n].key[1],
               RequestedWeight(IF named[n].has_weight THEN named[n].weight ELSE << >>,
                               named[n].key[1]))]

\* C26: the task of an accepted request gets every adapter with the weight the
\* request gives, out of range or not, or with the configured default when the
\* request gives none, from generate_image and from generate_inpaint; and
\* set_adapters activates an adapter with the weight of the task.
C26_AppliedWeights ==
    [][/\ Len(tasks') > Len(tasks) =>
             LET t == tasks'[Len(tasks')]
             IN /\ \A request \in GenerateRequests(env) :
                      generate_image(request) => t.lora_specs = RequestedSpecs(request.loras)
                /\ \A form \in InpaintForms(env) :
                      generate_inpaint(form) => t.lora_specs = RequestedJsonSpecs(form.loras.list)
       /\ \A j \in DOMAIN tasks :
             tasks[j].pc = "set_adapters" /\ tasks'[j].pc = "generating" =>
                 LET active == pipes'[tasks[j].pipe].active
                 IN \A n \in DOMAIN active :
                       \E i \in DOMAIN tasks[j].lora_specs :
                           /\ tasks[j].lora_specs[i].key = active[n].name
                           /\ tasks[j].lora_specs[i].weight = active[n].weight
      ]_vars

\* the task is between its first statements and the use of its pipeline: at the
\* cache check, in from_pretrained, or putting the pipeline into the cache
Acquiring(t) ==
    t.pc \in {"acquire", "from_pretrained", "cache_dict", "cache_pipe", "get_pipe"}

\* C27: a task writes processing before it checks the cache or loads a
\* pipeline: while it acquires its pipeline the job is processing, and so is the
\* answer of get_status; a task that has started never leaves its job pending.
C27_ProcessingBeforeAcquire ==
    \A j \in DOMAIN tasks :
        /\ Acquiring(tasks[j]) =>
              jobs[j].status = "processing" /\ get_status(j).status = "processing"
        /\ tasks[j].pc # "queued" => jobs[j].status # "pending"

\* an inpaint task is inside from_pretrained, and the status of its job is asked
C27_Witness ==
    \E j \in DOMAIN tasks :
        /\ tasks[j].fn = "inpaint"
        /\ tasks[j].pc = "from_pretrained"
        /\ get_status(j).status = "processing"

\* the adapters the task was given, and the adapters active on its pipeline
RequestedAdapters(t) == {t.lora_specs[i].key : i \in DOMAIN t.lora_specs}

ActiveAdapters(t) == {pipes[t.pipe].active[n].name : n \in DOMAIN pipes[t.pipe].active}

\* C28: the engine never runs a job with some, but not all, of the adapters the
\* job was given active on its pipeline.
C28_AllOrNothing ==
    \A j \in DOMAIN tasks :
        tasks[j].pc = "generating" =>
            ~ /\ ActiveAdapters(tasks[j]) \subseteq RequestedAdapters(tasks[j])
              /\ ActiveAdapters(tasks[j]) # RequestedAdapters(tasks[j])


\* the descriptor of the model lists the mode: its "txt2img", "img2img" or
\* "inpaint" member (every model lists txt2img)
ListsMode(model_key, mode) ==
    IF mode = "txt2img" THEN TRUE ELSE MODEL_CONFIGS[model_key][mode]

\* C29: a task whose model does not list its mode loads no pipeline: it is
\* never in from_pretrained and never has a pipeline, and when it has ended its
\* job is failed with the error that the model does not support the mode.
C29_UnsupportedModeNoLoad ==
    \A j \in DOMAIN tasks :
        LET t == tasks[j]
        IN t.model_key \in DOMAIN MODEL_CONFIGS /\ ~ListsMode(t.model_key, t.fn) =>
              /\ t.pc # "from_pretrained"
              /\ t.pipe = 0
              /\ t.pc = "done" =>
                    /\ jobs[j].status = "failed"
                    /\ jobs[j].message.error.msg = "Model does not support inpainting"

\* C30: a job during which the embedding of the metadata into the PNG or the
\* JPEG raised is not failed, and is completed when its task has ended.
C30_MetadataFailureNotFatal ==
    \A j \in DOMAIN tasks :
        (\E e \in tasks[j].raised : e.msg = "cannot embed metadata") =>
            /\ jobs[j].status # "failed"
            /\ tasks[j].pc = "done" => jobs[j].status = "completed"
\* C31: in both modes the init image the engine gets has a width and a height
\* that are multiples of 8 and at most max_size, whatever the size of the
\* uploaded image.
C31_EngineSizeNormalized ==
    image.fn # None /\ Len(image.sizes) >= 2 => Normalized(image.sizes[2])

\* C32: the mask the inpaint engine gets has the width and the height of the
\* init image it gets, for every size of the uploaded image and of the uploaded
\* mask; once the init image is preprocessed, preprocessing the mask raises
\* nothing.
C32_MaskMatchesInit ==
    /\ image.pc = "mask_done" => image.mask[1].size = image.sizes[2]
    /\ image.pc = "failed" => Len(image.sizes) = 1

\* a mask of another shape than the init image, which was itself resized
C32_Witness ==
    /\ image.pc = "mask_done"
    /\ image.sizes = <<<<3000, 1000>>, <<1024, 336>>>>
    /\ image.mask_size = <<7, 1030>>
    /\ image.mask[1].size = <<1024, 336>>

\* C33: with blur_mask set the mask is blurred with the radius of the request,
\* for every accepted radius, 0 included; with blur_mask unset it is not
\* blurred.
C33_RequestedBlurRadius ==
    image.pc = "mask_done" =>
        image.mask[1].blur = IF image.blur_mask THEN <<image.blur_factor>> ELSE << >>

\* C40: preprocessing an init image whose sides are at least 1 never computes
\* a side of 0, and the image the engine gets has sides of at least 8.
C40_NoZeroSide ==
    image.fn # None =>
        /\ ~image.raised
        /\ Len(image.sizes) >= 2 => image.sizes[2][1] >= 8 /\ image.sizes[2][2] >= 8

\* C34: the seed in the metadata of a job whose image was generated is the seed
\* of the request, whatever it is, and "random" exactly when the request had no
\* seed: exactly when the pipeline was called without a seeded generator.
C34_RecordedSeed ==
    \A j \in DOMAIN tasks :
        tasks[j].pc \in {"save_png", "save_jpg", "complete"} =>
            /\ metadata_seed(tasks[j]) =
                  IF tasks[j].seed = << >> THEN RandomSeed ELSE Seed(tasks[j].seed[1])
            /\ metadata_seed(tasks[j]) = RandomSeed <=> generator(tasks[j]) = << >>

\* C35: every lookup of the registry (the configuration of a model, of an
\* adapter, the adapters compatible with a model, the compatibility of an
\* adapter with a model, the inpaint model of a model) called with a key the
\* registry does not have raises an error that lists the keys it has.
C35_UnknownKeyNotFound ==
    lookup.fn # None =>
        /\ lookup.model_key # None /\ lookup.model_key \notin DOMAIN MODEL_CONFIGS =>
              lookup.result.raised /\ lookup.result.available = DOMAIN MODEL_CONFIGS
        /\ lookup.lora_key # None /\ lookup.lora_key \notin DOMAIN LORA_CONFIGS
              /\ (lookup.model_key = None \/ lookup.model_key \in DOMAIN MODEL_CONFIGS) =>
              lookup.result.raised /\ lookup.result.available = DOMAIN LORA_CONFIGS

\* C36: on the mps device every pipeline the loaders have loaded, of every
\* model and mode, was loaded with float32, whatever model_precision says.
C36_MpsFullPrecision ==
    Settings(env).device = "mps" =>
        \A p \in DOMAIN pipes : pipes[p].dtype = "float32"

\* C37: a job one of whose progress ticks raised an error while it was reported,
\* whatever the class of the error, and none of whose other operations failed,
\* is completed when its task has ended, with the progress of a completed job.
C37_TickErrorNotFatal ==
    \A j \in DOMAIN tasks :
        /\ tasks[j].dropped
        /\ tasks[j].pc = "done"
        /\ \A e \in tasks[j].raised : e = TickError(tasks[j])
        => jobs[j].status = "completed" /\ jobs[j].progress_percent = <<1000>>

\* C38: an adapter a job asked for that is recorded as loaded under the tracking
\* key of the pipeline the job holds, so that load_lora skips its load, is among
\* the adapters whose weights were loaded onto that pipeline object.
C38_BookkeepingMatchesHandle ==
    \A j \in DOMAIN tasks :
        tasks[j].pipe # 0 =>
            \A n \in DOMAIN tasks[j].lora_specs :
                already_loaded(tracking_key(tasks[j].pipe), tasks[j].lora_specs[n].key)
                    => tasks[j].lora_specs[n].key \in pipes[tasks[j].pipe].adapters

\* C39: a job whose load returned finds its pipeline in the cache: no task ends
\* with the KeyError of the cache lookup that follows the load, whatever the
\* other jobs load and whatever is unloaded meanwhile.
C39_HandleStillCached ==
    \A j \in DOMAIN tasks :
        Error("KeyError", "model_cache", tasks[j].model_id) \notin tasks[j].raised

=============================================================================
